---- MODULE Spec2Model ----
(***************************************************************************)
(* The shopping-cart store of the starter app: the `cart` slice (state,    *)
(* reducers, the getCartItems thunk and its lifecycle reducers) behind the *)
(* Redux store of starter/src/store.js, driven by arbitrary dispatches.    *)
(*                                                                         *)
(* A cart item is the record [id, price, amount]; `amount` is the item's   *)
(* quantity (the reducers write `cartItem.amount`).  `title` is display    *)
(* text that no reducer reads and is left out.                             *)
(***************************************************************************)
EXTENDS Integers, Sequences, FiniteSets, TLC

(* ------------------------------ bounds -------------------------------- *)
\* increase is followed up to this quantity
MaxQty == 3
\* number of getCartItems invocations followed
MaxLoads == 2

Requests == 1..MaxLoads

\* the products of the remote catalogue: id and unit price
Catalogue == { [id |-> 1, price |-> 50], [id |-> 2, price |-> 20] }

Ids == { p.id : p \in Catalogue }

\* the remote source returns at most as many records as the catalogue has
\* products
MaxLen == Cardinality(Catalogue)

\* the records the remote source can return: a product with its default
\* quantity of 1
PayloadItems == { [id |-> p.id, price |-> p.price, amount |-> 1] : p \in Catalogue }

RECURSIVE SeqsUpTo(_, _)
SeqsUpTo(S, n) == IF n = 0 THEN { <<>> } ELSE LET shorter == SeqsUpTo(S, n - 1) IN shorter \cup { Append(q, x) : q \in { t \in shorter : Len(t) = n - 1 }, x \in S }

\* the item lists a successful fetch can deliver (duplicated ids included:
\* nothing in the client filters the response)
Payloads == SeqsUpTo(PayloadItems, MaxLen)

(* ------------------------------- state -------------------------------- *)
VARIABLES cart, lastAction, thrown, inflight, invoked, completions, app, subs, heap

vars == << cart, lastAction, thrown, inflight, invoked, completions, app, subs, heap >>

\* state.cart at store creation
initialState == [cartItems |-> <<>>, amount |-> 0, total |-> 0, isLoading |-> TRUE]

(* --------------------------- reducer results --------------------------- *)
\* a case reducer either produces the next state or throws (the dispatch
\* then raises and the store keeps its state)
Ok(s) == [threw |-> FALSE, st |-> s]
Throw(s) == [threw |-> TRUE, st |-> s]

\* Array.prototype.find: index of the first item with this id, 0 for undefined
find(items, id) == IF \E i \in 1..Len(items) : items[i].id = id THEN CHOOSE i \in 1..Len(items) : items[i].id = id /\ \A j \in 1..(i - 1) : items[j].id # id ELSE 0

\* Array.prototype.filter(item => item.id !== itemId)
filterOut(items, itemId) == SelectSeq(items, LAMBDA item : item.id # itemId)

(* ---------------------------- case reducers ---------------------------- *)
\* faulty variant: amount is counted down by one instead of being reset
clearCart_decrementsAmount(s) == Ok([s EXCEPT !.cartItems = <<>>, !.amount = @ - 1])

\* faulty variant: the items are emptied but amount is left as it was
clearCart_keepsAmount(s) == Ok([s EXCEPT !.cartItems = <<>>])

clearCart(s) == Ok([s EXCEPT !.cartItems = <<>>, !.amount = 0])

removeItem(s, itemId) == LET kept == filterOut(s.cartItems, itemId) IN Ok([s EXCEPT !.cartItems = kept, !.amount = Len(kept)])

\* faulty variant: a quantity of 2 is not raised any further
increase_cappedAtTwo(s, payload) == LET i == find(s.cartItems, payload.id) IN IF i = 0 THEN Throw(s) ELSE IF s.cartItems[i].amount >= 2 THEN Ok(s) ELSE Ok([s EXCEPT !.cartItems[i].amount = @ + 1])

\* faulty variant: the item is rebuilt from id and quantity and loses its price
increase_dropsPrice(s, payload) == LET i == find(s.cartItems, payload.id) IN IF i = 0 THEN Throw(s) ELSE Ok([s EXCEPT !.cartItems[i] = [id |-> @.id, price |-> 0, amount |-> @.amount + 1]])

\* faulty variant: the increased item is moved to the front of the list
increase_movesToFront(s, payload) == LET i == find(s.cartItems, payload.id) IN IF i = 0 THEN Throw(s) ELSE Ok([s EXCEPT !.cartItems = << [s.cartItems[i] EXCEPT !.amount = @ + 1] >> \o SubSeq(s.cartItems, 1, i - 1) \o SubSeq(s.cartItems, i + 1, Len(s.cartItems))])

increase(s, payload) == LET i == find(s.cartItems, payload.id) IN IF i = 0 THEN Throw(s) ELSE Ok([s EXCEPT !.cartItems[i].amount = @ + 1])

decrease(s, payload) == LET i == find(s.cartItems, payload.id) IN IF i = 0 THEN Throw(s) ELSE Ok([s EXCEPT !.cartItems[i].amount = @ - 1])

\* the forEach accumulation of calculateTotals: running (amount, total)
RECURSIVE foldTotals(_, _, _, _)
foldTotals(items, k, amount, total) == IF k > Len(items) THEN << amount, total >> ELSE foldTotals(items, k + 1, amount + items[k].amount, total + items[k].amount * items[k].price)

\* faulty variant: amount counts the lines instead of summing their quantities
calculateTotals_lineCount(s) == LET t == foldTotals(s.cartItems, 1, 0, 0) IN Ok([s EXCEPT !.amount = Len(s.cartItems), !.total = t[2]])

\* faulty variant: the sums are added to the amount and total already stored
calculateTotals_accumulates(s) == LET t == foldTotals(s.cartItems, 1, s.amount, s.total) IN Ok([s EXCEPT !.amount = t[1], !.total = t[2]])

\* faulty variant: lines whose quantity is not above 0 are dropped while summing
calculateTotals_dropsEmptyLines(s) == LET t == foldTotals(s.cartItems, 1, 0, 0) IN Ok([s EXCEPT !.amount = t[1], !.total = t[2], !.cartItems = SelectSeq(@, LAMBDA item : item.amount > 0)])

calculateTotals(s) == LET t == foldTotals(s.cartItems, 1, 0, 0) IN Ok([s EXCEPT !.amount = t[1], !.total = t[2]])

\* extraReducers: getCartItems.pending / fulfilled / rejected
pending(s) == Ok([s EXCEPT !.isLoading = TRUE])

\* faulty variant: the delivered list is appended to the items instead of replacing them
fulfilled_appends(s, payload) == Ok([s EXCEPT !.isLoading = FALSE, !.cartItems = @ \o payload])

\* faulty variant: the delivered list is stored but the loading flag is not cleared
fulfilled_keepsLoading(s, payload) == Ok([s EXCEPT !.cartItems = payload])

fulfilled(s, payload) == Ok([s EXCEPT !.isLoading = FALSE, !.cartItems = payload])

\* faulty variant: a failed load empties the cart
rejected_clearsItems(s) == Ok([s EXCEPT !.isLoading = FALSE, !.cartItems = <<>>])

\* faulty variant: a failed fetch leaves isLoading as it was
rejected_keepsLoading(s) == Ok(s)

rejected(s) == Ok([s EXCEPT !.isLoading = FALSE])

\* setCount0 is not one of the action kinds the store knows: it is accepted
\* and ignored
setCount0(s) == Ok(s)

\* faulty variant: an unmatched action resets the slice to its initial state
defaultCase_resets(s) == Ok(initialState)

\* an action type no case reducer matches: the generated reducer returns
\* the current state
defaultCase(s) == Ok(s)

\* the reducer createSlice generates: dispatch on action.type
cartReducer(s, action) == CASE action.type = "cart/clearCart" -> clearCart(s) [] action.type = "cart/removeItem" -> removeItem(s, action.payload.itemId) [] action.type = "cart/increase" -> increase(s, action.payload) [] action.type = "cart/decrease" -> decrease(s, action.payload) [] action.type = "cart/calculateTotals" -> calculateTotals(s) [] action.type = "cart/getCartItems/pending" -> pending(s) [] action.type = "cart/getCartItems/fulfilled" -> fulfilled(s, action.payload.items) [] action.type = "cart/getCartItems/rejected" -> rejected(s) [] action.type = "cart/setCount0" -> setCount0(s) [] OTHER -> defaultCase(s)

(* ------------------------------- store --------------------------------- *)
\* an action object {type, payload} (meta.requestId for the thunk's actions).
\* Every payload is held as a record so that actions of different types can be
\* told apart: no payload is `undefined`, removeItem's id is [itemId], the
\* increase/decrease payload is the object {id}, a delivered list is [items]
undefined == [undefined |-> TRUE]

Action(type, payload, requestId) == [type |-> type, payload |-> payload, requestId |-> requestId]

\* faulty variant: the dispatch that follows a failed load is dropped and raises
dispatch_dropsAfterRejected(action) == IF lastAction.type = "cart/getCartItems/rejected" THEN (cart' = cart /\ thrown' = TRUE /\ lastAction' = action) ELSE LET r == cartReducer(cart, action) IN /\ cart' = (IF r.threw THEN cart ELSE r.st) /\ thrown' = r.threw /\ lastAction' = action

\* store.dispatch: run the reducer on the current state and keep its result;
\* when the reducer throws the state stays and the exception reaches the caller
dispatch(action) == LET r == cartReducer(cart, action) IN /\ cart' = (IF r.threw THEN cart ELSE r.st) /\ thrown' = r.threw /\ lastAction' = action

\* faulty variant: a settled request stays outstanding and can settle again
settle_keepsOutstanding(outstanding, r) == outstanding

\* a settled request is no longer outstanding
settle(outstanding, r) == outstanding \ {r}

\* App before React has rendered it: nothing is shown and no effect is pending
notMounted == [mounted |-> FALSE, screen |-> "none", isLoading |-> TRUE, length |-> 0, amount |-> 0, total |-> 0, stale |-> FALSE, itemsNew |-> FALSE, effects |-> <<>>]

\* the callbacks registered with the store: the useSelector subscriptions of
\* App and of Navbar
Callbacks == { "App", "Navbar" }

\* the store's subscription state.  listeners: the registered callbacks in
\* the order of their subscribe calls; notifying: a dispatch has replaced the
\* state and its notifications are not finished; toNotify: the callbacks it
\* still has to call; calls[c]: how often c was called by the dispatch made
\* last; sawIt[c]: getState() in that call returned the state the dispatch
\* produced; produced: the state the last successful dispatch produced;
\* base: the state the reducer of the last dispatch was applied to; count: the
\* dispatches made; live: the callbacks whose Unsubscribe handle was not
\* called; atBegin: the callbacks live when the last dispatch began; due:
\* those of them whose handle was not called since
storeCreated(s) == [listeners |-> <<>>, notifying |-> FALSE, toNotify |-> <<>>, calls |-> [c \in Callbacks |-> 0], sawIt |-> [c \in Callbacks |-> FALSE], produced |-> s, base |-> s, count |-> 0, live |-> {}, atBegin |-> {}, due |-> {}]

\* the objects behind a state value s, as the store first holds it: the item
\* objects, the cartItems array of their addresses and the state object
\* (an address is the position in its table); root is the address of the
\* state object the store holds; snapshot: a reference a reader obtained from
\* getState, with the value it had then; count: the dispatches made
heapOf(s) == [items |-> s.cartItems, arrays |-> << [i \in 1..Len(s.cartItems) |-> i] >>, states |-> << [cartItems |-> 1, amount |-> s.amount, total |-> s.total, isLoading |-> s.isLoading] >>, root |-> 1, snapshot |-> [taken |-> FALSE, addr |-> 1, value |-> s], count |-> 0]

Init == /\ cart = initialState /\ lastAction = Action("@@INIT", undefined, 0) /\ thrown = FALSE /\ inflight = {} /\ invoked = 0 /\ completions = [r \in Requests |-> 0] /\ app = notMounted /\ subs = storeCreated(initialState) /\ heap = heapOf(initialState)

(* ------------------------------ dispatches ----------------------------- *)
ClearCart == /\ dispatch(Action("cart/clearCart", undefined, 0)) /\ UNCHANGED << inflight, invoked, completions, app, subs, heap >>

RemoveItem(id) == /\ dispatch(Action("cart/removeItem", [itemId |-> id], 0)) /\ UNCHANGED << inflight, invoked, completions, app, subs, heap >>

Increase(id) == /\ (IF find(cart.cartItems, id) = 0 THEN TRUE ELSE cart.cartItems[find(cart.cartItems, id)].amount < MaxQty) /\ dispatch(Action("cart/increase", [id |-> id], 0)) /\ UNCHANGED << inflight, invoked, completions, app, subs, heap >>

Decrease(id) == /\ (IF find(cart.cartItems, id) = 0 THEN TRUE ELSE cart.cartItems[find(cart.cartItems, id)].amount >= 0) /\ dispatch(Action("cart/decrease", [id |-> id], 0)) /\ UNCHANGED << inflight, invoked, completions, app, subs, heap >>

CalculateTotals == /\ dispatch(Action("cart/calculateTotals", undefined, 0)) /\ UNCHANGED << inflight, invoked, completions, app, subs, heap >>

\* action types no case reducer of the cart slice matches: a misspelt one and
\* another slice's action (every reducer of the store sees every action)
UnknownTypes == { "cart/noSuchAction", "users/fetchUsers/pending" }

DispatchUnknown(type) == /\ dispatch(Action(type, undefined, 0)) /\ UNCHANGED << inflight, invoked, completions, app, subs, heap >>

\* dispatch(getCartItems()): the thunk dispatches pending at once and starts
\* the fetch
GetCartItems == /\ invoked < MaxLoads /\ invoked' = invoked + 1 /\ inflight' = inflight \cup {invoked + 1} /\ dispatch(Action("cart/getCartItems/pending", undefined, invoked + 1)) /\ UNCHANGED << completions, app, subs, heap >>

\* the fetch of request r returns the list L
FetchSucceeds(r, L) == /\ r \in inflight /\ inflight' = settle(inflight, r) /\ completions' = [completions EXCEPT ![r] = @ + 1] /\ dispatch(Action("cart/getCartItems/fulfilled", [items |-> L], r)) /\ UNCHANGED << invoked, app, subs, heap >>

\* the fetch of request r fails
FetchFails(r) == /\ r \in inflight /\ inflight' = settle(inflight, r) /\ completions' = [completions EXCEPT ![r] = @ + 1] /\ dispatch(Action("cart/getCartItems/rejected", undefined, r)) /\ UNCHANGED << invoked, app, subs, heap >>

Next ==
  \/ ClearCart
  \/ (\E id \in Ids : RemoveItem(id))
  \/ (\E id \in Ids : Increase(id))
  \/ (\E id \in Ids : Decrease(id))
  \/ CalculateTotals
  \/ (\E type \in UnknownTypes : DispatchUnknown(type))
  \/ GetCartItems
  \/ (\E r \in Requests, L \in Payloads : FetchSucceeds(r, L))
  \/ (\E r \in Requests : FetchFails(r))

Spec == Init /\ [][Next]_vars

\* the fetch of request r returns, with a list or with a failure
FetchReturns(r) == (\E L \in Payloads : FetchSucceeds(r, L)) \/ FetchFails(r)

\* the store with a remote source that answers every fetch it is sent (a
\* returning fetch always takes its request out of the outstanding ones)
FairSpec == Spec /\ \A r \in Requests : WF_inflight(FetchReturns(r))

\* the store right after a failed load: the first load failed on the empty
\* cart, or the first load delivered L and the second load failed
FirstLoadFailed == /\ cart = rejected(pending(initialState).st).st /\ lastAction = Action("cart/getCartItems/rejected", undefined, 1) /\ thrown = FALSE /\ inflight = {} /\ invoked = 1 /\ completions = [r \in Requests |-> IF r = 1 THEN 1 ELSE 0] /\ app = notMounted /\ subs = storeCreated(initialState) /\ heap = heapOf(initialState)

SecondLoadFailed(L) == /\ cart = rejected(pending(fulfilled(pending(initialState).st, L).st).st).st /\ lastAction = Action("cart/getCartItems/rejected", undefined, 2) /\ thrown = FALSE /\ inflight = {} /\ invoked = 2 /\ completions = [r \in Requests |-> IF r <= 2 THEN 1 ELSE 0] /\ app = notMounted /\ subs = storeCreated(initialState) /\ heap = heapOf(initialState)

InitAfterFailure == FirstLoadFailed \/ (\E L \in Payloads : SecondLoadFailed(L))

\* the store from a failed load on
AfterFailureSpec == InitAfterFailure /\ [][Next]_vars

\* faulty variant: Navbar and CartContainer are rendered whatever isLoading is
AppScreen_ignoresLoading == "Cart"

\* what App renders: the Loading screen while isLoading, else Navbar and
\* CartContainer
AppScreen == IF cart.isLoading THEN "Loading" ELSE "Cart"

(* ------------------------------ App (React) ---------------------------- *)
\* the dispatches after which state.cart.cartItems is another array than
\* before: clearCart, removeItem and a delivery assign a new array, increase
\* and decrease change an item of it (Immer then copies the array);
\* calculateTotals, pending and rejected leave the array alone, and so does a
\* dispatch that throws
ReplacingTypes == { "cart/clearCart", "cart/removeItem", "cart/increase", "cart/decrease", "cart/getCartItems/fulfilled" }

\* faulty variant: increase and decrease write into the item of the existing
\* array, which stays the same array
CartItemsReplaced_exceptInPlace(s, action) == ~cartReducer(s, action).threw /\ action.type \in { "cart/clearCart", "cart/removeItem", "cart/getCartItems/fulfilled" }

\* faulty variant: calculateTotals hands back a new array too
CartItemsReplaced_alsoByTotals(s, action) == ~cartReducer(s, action).threw /\ action.type \in ReplacingTypes \cup { "cart/calculateTotals" }

CartItemsReplaced(s, action) == ~cartReducer(s, action).threw /\ action.type \in ReplacingTypes

\* state.cart is another object than before: something in it was written
\* with another value or its cartItems were replaced
StateReplaced(s, action) == CartItemsReplaced(s, action) \/ (~cartReducer(s, action).threw /\ cartReducer(s, action).st # s)

\* what useSelector leaves in the component after a dispatch: whether a
\* re-render is due and whether cartItems is another array than the one of
\* the last render; `remaining` are the effects of the last commit still to run
AfterDispatch(a, s, action, remaining) == [a EXCEPT !.stale = @ \/ StateReplaced(s, action), !.itemsNew = @ \/ CartItemsReplaced(s, action), !.effects = remaining]

\* the effects of App in their order of declaration
EffectOrder == << "totals", "load", "count0" >>

\* the first render: the three effects all run after it
Mount == /\ ~app.mounted /\ app' = [mounted |-> TRUE, screen |-> AppScreen, isLoading |-> cart.isLoading, length |-> Len(cart.cartItems), amount |-> cart.amount, total |-> cart.total, stale |-> FALSE, itemsNew |-> FALSE, effects |-> EffectOrder] /\ UNCHANGED << cart, lastAction, thrown, inflight, invoked, completions, subs, heap >>

\* faulty variant: the totals effect has an empty dependency list and runs
\* after the first render only
EffectsDue_totalsOnMountOnly(a, s) == SelectSeq(EffectOrder, LAMBDA e : e = "count0" /\ (a.isLoading # s.isLoading \/ a.length # Len(s.cartItems)))

\* the effects a re-render schedules: those with a dependency that differs
\* from the one of the previous render
EffectsDue(a, s) == SelectSeq(EffectOrder, LAMBDA e : \/ (e = "totals" /\ a.itemsNew) \/ (e = "count0" /\ (a.isLoading # s.isLoading \/ a.length # Len(s.cartItems))))

\* a re-render after the store changed, once the effects of the previous
\* commit have run
Render == /\ app.mounted /\ app.effects = <<>> /\ app.stale /\ app' = [mounted |-> TRUE, screen |-> AppScreen, isLoading |-> cart.isLoading, length |-> Len(cart.cartItems), amount |-> cart.amount, total |-> cart.total, stale |-> FALSE, itemsNew |-> FALSE, effects |-> EffectsDue(app, cart)] /\ UNCHANGED << cart, lastAction, thrown, inflight, invoked, completions, subs, heap >>

\* useEffect(() => dispatch(calculateTotals()), [cartItems])
EffectTotals == /\ app.effects # <<>> /\ Head(app.effects) = "totals" /\ dispatch(Action("cart/calculateTotals", undefined, 0)) /\ app' = AfterDispatch(app, cart, Action("cart/calculateTotals", undefined, 0), Tail(app.effects)) /\ UNCHANGED << inflight, invoked, completions, subs, heap >>

\* useEffect(() => dispatch(getCartItems()), [])
EffectLoad == /\ app.effects # <<>> /\ Head(app.effects) = "load" /\ invoked < MaxLoads /\ invoked' = invoked + 1 /\ inflight' = inflight \cup {invoked + 1} /\ dispatch(Action("cart/getCartItems/pending", undefined, invoked + 1)) /\ app' = AfterDispatch(app, cart, Action("cart/getCartItems/pending", undefined, invoked + 1), Tail(app.effects)) /\ UNCHANGED << completions, subs, heap >>

\* useEffect(() => { if (!isLoading && cartItems.length > 0) dispatch(setCount0()) }, [isLoading, cartItems.length]),
\* with the isLoading and cartItems of the render that scheduled it
EffectCount0 == /\ app.effects # <<>> /\ Head(app.effects) = "count0" /\ (IF ~app.isLoading /\ app.length > 0 THEN dispatch(Action("cart/setCount0", undefined, 0)) /\ app' = AfterDispatch(app, cart, Action("cart/setCount0", undefined, 0), Tail(app.effects)) ELSE app' = [app EXCEPT !.effects = Tail(@)] /\ UNCHANGED << cart, lastAction, thrown >>) /\ UNCHANGED << inflight, invoked, completions, subs, heap >>

\* nothing of App is left to run: it is rendered from the current store state
\* and no effect is pending
Quiescent == app.mounted /\ ~app.stale /\ app.effects = <<>>

\* the buttons exist once Navbar and CartContainer are shown, and a click is
\* handled when the renders and effects of the previous event have run
CanClick == Quiescent /\ app.screen = "Cart"

\* the clear button of CartContainer
ClickClear == /\ CanClick /\ dispatch(Action("cart/clearCart", undefined, 0)) /\ app' = AfterDispatch(app, cart, Action("cart/clearCart", undefined, 0), <<>>) /\ UNCHANGED << inflight, invoked, completions, subs, heap >>

\* the remove button of a shown item
ClickRemove(id) == /\ CanClick /\ id \in { cart.cartItems[i].id : i \in 1..Len(cart.cartItems) } /\ dispatch(Action("cart/removeItem", [itemId |-> id], 0)) /\ app' = AfterDispatch(app, cart, Action("cart/removeItem", [itemId |-> id], 0), <<>>) /\ UNCHANGED << inflight, invoked, completions, subs, heap >>

\* the increase button of a shown item
ClickIncrease(id) == /\ CanClick /\ find(cart.cartItems, id) # 0 /\ cart.cartItems[find(cart.cartItems, id)].amount < MaxQty /\ dispatch(Action("cart/increase", [id |-> id], 0)) /\ app' = AfterDispatch(app, cart, Action("cart/increase", [id |-> id], 0), <<>>) /\ UNCHANGED << inflight, invoked, completions, subs, heap >>

\* the decrease button of a shown item
ClickDecrease(id) == /\ CanClick /\ find(cart.cartItems, id) # 0 /\ cart.cartItems[find(cart.cartItems, id)].amount >= 0 /\ dispatch(Action("cart/decrease", [id |-> id], 0)) /\ app' = AfterDispatch(app, cart, Action("cart/decrease", [id |-> id], 0), <<>>) /\ UNCHANGED << inflight, invoked, completions, subs, heap >>

\* the fetch of the load returns the list L: the thunk's continuation runs
\* as a task of its own, after the effects that started it
LoadFulfilled(r, L) == /\ Quiescent /\ r \in inflight /\ inflight' = settle(inflight, r) /\ completions' = [completions EXCEPT ![r] = @ + 1] /\ dispatch(Action("cart/getCartItems/fulfilled", [items |-> L], r)) /\ app' = AfterDispatch(app, cart, Action("cart/getCartItems/fulfilled", [items |-> L], r), <<>>) /\ UNCHANGED << invoked, subs, heap >>

\* the fetch of the load fails
LoadRejected(r) == /\ Quiescent /\ r \in inflight /\ inflight' = settle(inflight, r) /\ completions' = [completions EXCEPT ![r] = @ + 1] /\ dispatch(Action("cart/getCartItems/rejected", undefined, r)) /\ app' = AfterDispatch(app, cart, Action("cart/getCartItems/rejected", undefined, r), <<>>) /\ UNCHANGED << invoked, subs, heap >>

\* React's own steps: renders and effects
AppStep == Mount \/ Render \/ EffectTotals \/ EffectLoad \/ EffectCount0

AppNext ==
  \/ Mount
  \/ Render
  \/ EffectTotals
  \/ EffectLoad
  \/ EffectCount0
  \/ ClickClear
  \/ (\E id \in Ids : ClickRemove(id))
  \/ (\E id \in Ids : ClickIncrease(id))
  \/ (\E id \in Ids : ClickDecrease(id))
  \/ (\E r \in Requests, L \in Payloads : LoadFulfilled(r, L))
  \/ (\E r \in Requests : LoadRejected(r))

\* the store with App mounted on it: every dispatch comes from App's effects,
\* the buttons it shows or the load it started
AppSpec == Init /\ [][AppNext]_vars

\* React runs a due render and the pending effects without waiting for
\* anything
FairAppSpec == AppSpec /\ WF_vars(AppStep)

(* ------------------------ store: subscribe / notify -------------------- *)
\* number of dispatches followed on the store with subscribers
MaxDispatches == 3

\* faulty variant: the callback stays in the listener list
unsubscribe_keepsCallback(listeners, c) == listeners

\* the Unsubscribe handle of c: c is taken out of the listener list
unsubscribe(listeners, c) == SelectSeq(listeners, LAMBDA x : x # c)

\* faulty variant: a callback that subscribed before is called twice
listenersToCall_twice(listeners) == listeners \o listeners

\* the callbacks a dispatch notifies: the registered ones, each once
listenersToCall(listeners) == listeners

\* faulty variant: a dispatch may begin while the notifications of another
\* are running
CanDispatch_reentrant(s) == s.count < MaxDispatches

\* a caller runs, and may call dispatch, when no other dispatch is on the
\* single thread
CanDispatch(s) == ~s.notifying /\ s.count < MaxDispatches

\* the store after the load that App started has delivered both products
Loaded == fulfilled(pending(initialState).st, << [id |-> 1, price |-> 50, amount |-> 1], [id |-> 2, price |-> 20, amount |-> 1] >>).st

StoreInit == /\ cart = Loaded /\ lastAction = Action("cart/getCartItems/fulfilled", [items |-> Loaded.cartItems], 1) /\ thrown = FALSE /\ inflight = {} /\ invoked = 1 /\ completions = [r \in Requests |-> IF r = 1 THEN 1 ELSE 0] /\ app = notMounted /\ subs = storeCreated(Loaded) /\ heap = heapOf(cart)

\* the actions dispatched on the store with subscribers: by a click (clearCart,
\* increase) and by App's effect (calculateTotals)
StoreActions == { Action("cart/clearCart", undefined, 0), Action("cart/calculateTotals", undefined, 0) } \cup { Action("cart/increase", [id |-> id], 0) : id \in Ids }

\* subscribe(callback): the callback is appended to the listeners
Subscribe(c) == /\ c \notin subs.live /\ subs' = [subs EXCEPT !.listeners = Append(@, c), !.live = @ \cup {c}] /\ UNCHANGED << cart, lastAction, thrown, inflight, invoked, completions, app, heap >>

\* the Unsubscribe handle of c is called between two dispatches, or by a
\* callback while a dispatch notifies: the notification in progress then
\* either still reaches c or leaves it out
Unsubscribe(c) == /\ c \in subs.live /\ (\E stillCalled \in BOOLEAN : subs' = [subs EXCEPT !.listeners = unsubscribe(@, c), !.toNotify = IF stillCalled THEN @ ELSE unsubscribe(@, c), !.live = @ \ {c}, !.due = @ \ {c}]) /\ UNCHANGED << cart, lastAction, thrown, inflight, invoked, completions, app, heap >>

\* dispatch(action): the reducer runs on the stored state and its result
\* replaces it, then the registered callbacks are to be called; a reducer
\* that throws leaves the state and nobody is called
StoreDispatch(action) == /\ CanDispatch(subs) /\ (action.type = "cart/increase" /\ find(cart.cartItems, action.payload.id) # 0 => cart.cartItems[find(cart.cartItems, action.payload.id)].amount < MaxQty) /\ (LET r == cartReducer(cart, action) IN /\ cart' = (IF r.threw THEN cart ELSE r.st) /\ thrown' = r.threw /\ lastAction' = action /\ subs' = [subs EXCEPT !.notifying = ~r.threw, !.toNotify = IF r.threw THEN <<>> ELSE listenersToCall(subs.listeners), !.calls = [c \in Callbacks |-> 0], !.sawIt = [c \in Callbacks |-> FALSE], !.produced = IF r.threw THEN @ ELSE r.st, !.base = cart, !.count = @ + 1, !.atBegin = subs.live, !.due = subs.live]) /\ UNCHANGED << inflight, invoked, completions, app, heap >>

\* the next callback is called and reads getState()
Notify == /\ subs.notifying /\ subs.toNotify # <<>> /\ (LET c == Head(subs.toNotify) IN subs' = [subs EXCEPT !.toNotify = Tail(@), !.calls[c] = @ + 1, !.sawIt[c] = (cart = subs.produced)]) /\ UNCHANGED << cart, lastAction, thrown, inflight, invoked, completions, app, heap >>

\* every callback was called: dispatch returns to its caller
Return == /\ subs.notifying /\ subs.toNotify = <<>> /\ subs' = [subs EXCEPT !.notifying = FALSE] /\ UNCHANGED << cart, lastAction, thrown, inflight, invoked, completions, app, heap >>

StoreNext ==
  \/ (\E c \in Callbacks : Subscribe(c))
  \/ (\E c \in Callbacks : Unsubscribe(c))
  \/ (\E action \in StoreActions : StoreDispatch(action))
  \/ Notify
  \/ Return

\* the store with the callbacks of subscribe
StoreSpec == StoreInit /\ [][StoreNext]_vars

\* a dispatch calls its callbacks and returns without waiting for anything
FairStoreSpec == StoreSpec /\ WF_vars(Notify \/ Return)

(* ------------------------- state objects (Immer) ----------------------- *)
\* the state value behind the state object at address a
Deref(h, a) == LET st == h.states[a] arr == h.arrays[st.cartItems] IN [cartItems |-> [i \in 1..Len(arr) |-> h.items[arr[i]]], amount |-> st.amount, total |-> st.total, isLoading |-> st.isLoading]

\* a new state object with the scalars of the value s and the array at address arr
Allocated(h, s, arr) == Append(h.states, [cartItems |-> arr, amount |-> s.amount, total |-> s.total, isLoading |-> s.isLoading])

\* faulty variant: the reducer's writes are carried out on the objects
\* themselves, as without Immer: no object is cloned and the root stays
produce_inPlace(h, action) ==
  LET v == Deref(h, h.root)
      r == cartReducer(v, action)
      st == h.states[h.root]
      arr == h.arrays[st.cartItems]
      written == [st EXCEPT !.amount = r.st.amount, !.total = r.st.total, !.isLoading = r.st.isLoading]
  IN IF r.threw THEN h
     ELSE CASE action.type = "cart/clearCart" -> [h EXCEPT !.arrays[st.cartItems] = <<>>, !.states[h.root] = written]
            [] action.type = "cart/removeItem" -> [h EXCEPT !.arrays[st.cartItems] = SelectSeq(arr, LAMBDA a : h.items[a].id # action.payload.itemId), !.states[h.root] = written]
            [] action.type \in { "cart/increase", "cart/decrease" } -> [h EXCEPT !.items[arr[find(v.cartItems, action.payload.id)]] = r.st.cartItems[find(v.cartItems, action.payload.id)]]
            [] OTHER -> [h EXCEPT !.states[h.root] = written]

\* Immer runs the case reducer on a draft of the state object at the root:
\* an object the reducer writes is cloned, and so are the array that holds a
\* cloned item and the state object; an array the reducer assigns is a new
\* array; what is not written is shared, and a reducer that writes nothing
\* (or throws) leaves the state object as the root
produce(h, action) ==
  LET v == Deref(h, h.root)
      r == cartReducer(v, action)
      arr == h.arrays[h.states[h.root].cartItems]
      newArray == Len(h.arrays) + 1
      newState == Len(h.states) + 1
  IN IF r.threw THEN h
     ELSE CASE action.type = "cart/clearCart" -> [h EXCEPT !.arrays = Append(@, <<>>), !.states = Allocated(h, r.st, newArray), !.root = newState]
            [] action.type = "cart/removeItem" -> [h EXCEPT !.arrays = Append(@, SelectSeq(arr, LAMBDA a : h.items[a].id # action.payload.itemId)), !.states = Allocated(h, r.st, newArray), !.root = newState]
            [] action.type \in { "cart/increase", "cart/decrease" } -> LET i == find(v.cartItems, action.payload.id) IN [h EXCEPT !.items = Append(@, r.st.cartItems[i]), !.arrays = Append(@, [arr EXCEPT ![i] = Len(h.items) + 1]), !.states = Allocated(h, r.st, newArray), !.root = newState]
            [] action.type = "cart/getCartItems/fulfilled" -> [h EXCEPT !.items = @ \o action.payload.items, !.arrays = Append(@, [i \in 1..Len(action.payload.items) |-> Len(h.items) + i]), !.states = Allocated(h, r.st, newArray), !.root = newState]
            [] OTHER -> IF r.st = v THEN h ELSE [h EXCEPT !.states = Allocated(h, r.st, h.states[h.root].cartItems), !.root = newState]

\* the store holding the objects of the delivered cart
HeapInit == /\ cart = Loaded /\ lastAction = Action("cart/getCartItems/fulfilled", [items |-> Loaded.cartItems], 1) /\ thrown = FALSE /\ inflight = {} /\ invoked = 1 /\ completions = [r \in Requests |-> IF r = 1 THEN 1 ELSE 0] /\ app = notMounted /\ subs = storeCreated(Loaded) /\ heap = heapOf(Loaded)

\* the transitions followed on the objects
HeapActions == { Action("cart/clearCart", undefined, 0), Action("cart/calculateTotals", undefined, 0) } \cup { Action("cart/removeItem", [itemId |-> id], 0) : id \in Ids } \cup { Action("cart/increase", [id |-> id], 0) : id \in Ids } \cup { Action("cart/decrease", [id |-> id], 0) : id \in Ids }

\* a dispatch: the reducer runs under Immer and the store holds the state
\* object it returns
HeapDispatch(action) == /\ heap.count < MaxDispatches /\ dispatch(action) /\ heap' = [produce(heap, action) EXCEPT !.count = @ + 1] /\ UNCHANGED << inflight, invoked, completions, app, subs >>

\* store.getState(), or a selector: the reader holds the state object the
\* store holds now
GetState == /\ heap' = [heap EXCEPT !.snapshot = [taken |-> TRUE, addr |-> heap.root, value |-> Deref(heap, heap.root)]] /\ UNCHANGED << cart, lastAction, thrown, inflight, invoked, completions, app, subs >>

HeapNext ==
  \/ (\E action \in HeapActions : HeapDispatch(action))
  \/ GetState

\* the store and the objects its states are made of
HeapSpec == HeapInit /\ [][HeapNext]_vars

(* ======================================================================= *)
(* Properties                                                              *)
(* ======================================================================= *)

RECURSIVE SumOf(_, _)
SumOf(f, S) == IF S = {} THEN 0 ELSE LET x == CHOOSE y \in S : TRUE IN f[x] + SumOf(f, S \ {x})

\* sum of the quantities of all items
QuantitySum(items) == SumOf([i \in 1..Len(items) |-> items[i].amount], 1..Len(items))

\* sum of price * quantity over all items
ValueSum(items) == SumOf([i \in 1..Len(items) |-> items[i].price * items[i].amount], 1..Len(items))

ItemIds(items) == { items[i].id : i \in 1..Len(items) }

\* C1: in the state a calculateTotals dispatch produces, amount is the sum of
\* the item quantities and total is the sum of price * quantity over the items.
C1_TotalsAfterCalculate == lastAction.type = "cart/calculateTotals" => (~thrown /\ cart.amount = QuantitySum(cart.cartItems) /\ cart.total = ValueSum(cart.cartItems))

\* a calculateTotals over two lines with quantities 2 and 1
C1_Witness == lastAction.type = "cart/calculateTotals" /\ Len(cart.cartItems) = 2 /\ cart.cartItems[1].amount = 2 /\ cart.cartItems[2].amount = 1 /\ cart.amount = 3 /\ cart.total = 120

\* C2: no item's quantity is ever below 0, however many decrease(id) are
\* dispatched.
C2_QuantityNeverNegative == \A i \in 1..Len(cart.cartItems) : cart.cartItems[i].amount >= 0

\* C3: increase(id), decrease(id) or removeItem(id) with an id that matches no
\* item never raises: the dispatch does not throw.
C3_MissingIdNeverThrows == lastAction.type \in { "cart/increase", "cart/decrease", "cart/removeItem" } => ~thrown

\* C4: removeItem(id) with an id that is not in the cart yields a state equal
\* to the one before it (items, amount, total, isLoading).
C4_RemoveAbsentKeepsState == [][(lastAction'.type = "cart/removeItem" /\ lastAction'.payload.itemId \notin ItemIds(cart.cartItems)) => cart' = cart]_vars

\* C5: a dispatch whose action type is not recognised leaves items, amount,
\* total and isLoading as they were and does not throw.
C5_UnknownActionIsNoOp == [][lastAction'.type \in UnknownTypes => (cart' = cart /\ ~thrown')]_vars

\* an unrecognised action dispatched on a loaded, non-empty cart
C5_Witness == lastAction.type \in UnknownTypes /\ ~cart.isLoading /\ Len(cart.cartItems) = 2 /\ cart.amount = 2

\* C6: the state after a successful fetch has isLoading = false and exactly
\* the delivered list as its items, in the delivered order.
C6_FulfilledInstallsItems == lastAction.type = "cart/getCartItems/fulfilled" => (~thrown /\ ~cart.isLoading /\ cart.cartItems = lastAction.payload.items)

\* the second load delivered one item after the first had delivered two
C6_Witness == lastAction.type = "cart/getCartItems/fulfilled" /\ lastAction.requestId = 2 /\ completions[1] = 1 /\ Len(lastAction.payload.items) = 1 /\ cart.cartItems = lastAction.payload.items /\ cart.amount = 2

\* C7: the load's own dispatches leave the items alone (pending on
\* invocation, rejected on failure), the state after a failed fetch has
\* isLoading = false, and the failure does not make the dispatch throw.
C7_RejectedKeepsItems == [][(lastAction'.type = "cart/getCartItems/pending" => cart'.cartItems = cart.cartItems) /\ (lastAction'.type = "cart/getCartItems/rejected" => (~thrown' /\ ~cart'.isLoading /\ cart'.cartItems = cart.cartItems))]_vars

\* a failed fetch on a cart that holds items
C7_Witness == lastAction.type = "cart/getCartItems/rejected" /\ Len(cart.cartItems) = 2 /\ ~cart.isLoading /\ ~thrown

\* C8: every invoked load gets exactly one completion dispatch (fulfilled or
\* rejected) once its fetch has returned, none while it is outstanding, and
\* never a second one.
C8_OneCompletionPerLoad == \A r \in Requests : /\ completions[r] <= 1 /\ (r \in inflight => (r <= invoked /\ completions[r] = 0)) /\ ((r <= invoked /\ r \notin inflight) => completions[r] = 1) /\ (r > invoked => completions[r] = 0)

\* two loads, both completed: the first fulfilled, the second rejected
C8_Witness == invoked = 2 /\ inflight = {} /\ completions[1] = 1 /\ completions[2] = 1 /\ lastAction.type = "cart/getCartItems/rejected" /\ cart.cartItems # <<>>

\* C9 as stated: isLoading = true implies an outstanding fetch, in every
\* reachable state, the state at process start included.
C9_LoadingImpliesOutstanding == cart.isLoading => inflight # {}

\* C9 amended: isLoading = true implies an outstanding fetch or that no load
\* has been invoked yet.
C9_LoadingImpliesOutstandingOrNotStarted == cart.isLoading => (inflight # {} \/ invoked = 0)

\* a second load outstanding after the first completed
C9_Witness == cart.isLoading /\ invoked = 2 /\ inflight = {2} /\ completions[1] = 1

\* C10: while any load is outstanding isLoading is true, also when another
\* load was invoked and completed meanwhile.
C10_LoadingWhileOutstanding == inflight # {} => cart.isLoading

\* request r was invoked before a load that has already completed
Stale(r) == \E newer \in Requests : newer > r /\ newer <= invoked /\ newer \notin inflight

\* C11: when an older load completes after a newer load has already
\* completed, the older result is ignored: the completion leaves items and
\* isLoading as they were.
C11_StaleResultIgnored == [][(lastAction'.type \in { "cart/getCartItems/fulfilled", "cart/getCartItems/rejected" } /\ Stale(lastAction'.requestId)) => (cart'.cartItems = cart.cartItems /\ cart'.isLoading = cart.isLoading)]_vars

\* C12: once a load has been invoked and the remote read returns (with a list
\* or with a failure), the store eventually has isLoading = false and App
\* shows the cart instead of the Loading screen.
C12_LoadEventuallySettles == (inflight # {}) ~> (~cart.isLoading /\ AppScreen = "Cart")

\* the only load failed and App shows the (empty) cart
C12_Witness == invoked = 1 /\ inflight = {} /\ lastAction.type = "cart/getCartItems/rejected" /\ ~cart.isLoading /\ AppScreen = "Cart"

\* the effect each dispatch has on a store no load of which has failed
NormalEffect(before, action, after, raised) ==
  /\ action.type = "cart/clearCart" => (~raised /\ after = [before EXCEPT !.cartItems = <<>>, !.amount = 0])
  /\ action.type = "cart/removeItem" => (~raised /\ ItemIds(after.cartItems) = ItemIds(before.cartItems) \ {action.payload.itemId} /\ after.isLoading = before.isLoading)
  /\ (action.type = "cart/increase" /\ action.payload.id \in ItemIds(before.cartItems)) => (~raised /\ QuantitySum(after.cartItems) = QuantitySum(before.cartItems) + 1 /\ after.isLoading = before.isLoading)
  /\ (action.type = "cart/decrease" /\ action.payload.id \in ItemIds(before.cartItems)) => (~raised /\ QuantitySum(after.cartItems) = QuantitySum(before.cartItems) - 1 /\ after.isLoading = before.isLoading)
  /\ action.type = "cart/calculateTotals" => (~raised /\ after = [before EXCEPT !.amount = QuantitySum(before.cartItems), !.total = ValueSum(before.cartItems)])
  /\ action.type = "cart/getCartItems/pending" => (~raised /\ after = [before EXCEPT !.isLoading = TRUE])
  /\ action.type = "cart/getCartItems/fulfilled" => (~raised /\ after = [before EXCEPT !.isLoading = FALSE, !.cartItems = action.payload.items])

QuantityOf(items, id) == items[find(items, id)].amount

\* C14: for every item in the cart whose quantity is above 0, increase(id)
\* followed by decrease(id) gives the item its original quantity back, and
\* neither dispatch raises.
C14_IncreaseThenDecreaseRestores == \A id \in ItemIds(cart.cartItems) : QuantityOf(cart.cartItems, id) > 0 => LET up == increase(cart, [id |-> id]) down == decrease(up.st, [id |-> id]) IN ~up.threw /\ ~down.threw /\ QuantityOf(up.st.cartItems, id) = QuantityOf(cart.cartItems, id) + 1 /\ QuantityOf(down.st.cartItems, id) = QuantityOf(cart.cartItems, id)

\* item 1 was raised to 3 and then decreased back to 2
C14_Witness == lastAction.type = "cart/decrease" /\ lastAction.payload.id = 1 /\ ~thrown /\ 1 \in ItemIds(cart.cartItems) /\ QuantityOf(cart.cartItems, 1) = 2

\* C15: clearCart is idempotent: applied to the state a clearCart produced it
\* yields that state again (items, amount, total and isLoading).
C15_ClearCartIdempotent == LET once == clearCart(cart) twice == clearCart(once.st) IN ~once.threw /\ ~twice.threw /\ twice.st = once.st

\* clearCart on a loaded cart whose total had been computed
C15_Witness == lastAction.type = "cart/clearCart" /\ ~thrown /\ cart.cartItems = <<>> /\ cart.total = 120 /\ ~cart.isLoading

\* C16: calculateTotals is idempotent: applied to the state a calculateTotals
\* produced it yields that state again.
C16_CalculateTotalsIdempotent == LET once == calculateTotals(cart) twice == calculateTotals(once.st) IN ~once.threw /\ ~twice.threw /\ twice.st = once.st

\* calculateTotals over two lines of quantity 1
C16_Witness == lastAction.type = "cart/calculateTotals" /\ ~thrown /\ Len(cart.cartItems) = 2 /\ cart.amount = 2 /\ cart.total = 70

\* C17: from any state clearCart yields items = [] and amount = 0, and a
\* calculateTotals after it yields amount = 0 and total = 0.
C17_ClearThenTotalsIsZero == LET cleared == clearCart(cart) summed == calculateTotals(cleared.st) IN ~cleared.threw /\ cleared.st.cartItems = <<>> /\ cleared.st.amount = 0 /\ ~summed.threw /\ summed.st.amount = 0 /\ summed.st.total = 0

\* clearCart on a cart whose amount and total were 4 and 170: the total is
\* still stored when calculateTotals runs next
C17_Witness == lastAction.type = "cart/clearCart" /\ ~thrown /\ cart.cartItems = <<>> /\ cart.amount = 0 /\ cart.total = 170

\* position of the first item with this id (the id is in the list)
FirstWith(items, id) == CHOOSE i \in 1..Len(items) : items[i].id = id /\ \A j \in 1..(i - 1) : items[j].id # id

\* C18: increase(id) on an item in the cart does not raise, raises that
\* item's quantity by exactly 1 and leaves its other fields, every other item
\* and isLoading unchanged; a calculateTotals right after it reports the sums
\* over the increased quantities.
C18_IncreaseFrame == [][((lastAction'.type = "cart/increase" /\ lastAction'.payload.id \in ItemIds(cart.cartItems)) => (LET i == FirstWith(cart.cartItems, lastAction'.payload.id) IN ~thrown' /\ Len(cart'.cartItems) = Len(cart.cartItems) /\ cart'.cartItems[i] = [cart.cartItems[i] EXCEPT !.amount = @ + 1] /\ (\A j \in 1..Len(cart.cartItems) : j # i => cart'.cartItems[j] = cart.cartItems[j]) /\ cart'.isLoading = cart.isLoading)) /\ ((lastAction.type = "cart/increase" /\ ~thrown /\ lastAction'.type = "cart/calculateTotals") => (cart'.amount = QuantitySum(cart.cartItems) /\ cart'.total = ValueSum(cart.cartItems)))]_vars

\* quantities 2 and 1 at prices 50 and 20, the first increased, then
\* calculateTotals: amount 4 and total 170
C18_Witness == lastAction.type = "cart/calculateTotals" /\ cart.cartItems = << [id |-> 1, price |-> 50, amount |-> 3], [id |-> 2, price |-> 20, amount |-> 1] >> /\ cart.amount = 4 /\ cart.total = 170

\* the items without the entries of this id, in their order
RECURSIVE Without(_, _)
Without(items, id) == IF items = <<>> THEN <<>> ELSE IF Head(items).id = id THEN Without(Tail(items), id) ELSE << Head(items) >> \o Without(Tail(items), id)

\* the sequence of the items' ids
IdSeq(items) == [i \in 1..Len(items) |-> items[i].id]

C20_UniqueIds == \A i, j \in 1..Len(cart.cartItems) : i # j => cart.cartItems[i].id # cart.cartItems[j].id

\* C28: in every reachable state amount >= 0, also after removeItem on an
\* empty cart or with an id that is not in the cart.
C28_AmountNeverNegative == cart.amount >= 0

\* C30: calculateTotals changes only amount and total: the items (contents
\* and order) and isLoading are the same before and after, and it does not
\* raise.
C30_CalculateTotalsFrame == [][lastAction'.type = "cart/calculateTotals" => (~thrown' /\ cart'.cartItems = cart.cartItems /\ cart'.isLoading = cart.isLoading)]_vars

\* calculateTotals while a second load is outstanding over a line of quantity
\* 0: the line and isLoading stay
C30_Witness == lastAction.type = "cart/calculateTotals" /\ cart.isLoading /\ Len(cart.cartItems) = 2 /\ cart.cartItems[1].amount = 0 /\ cart.amount = 1 /\ cart.total = 20

\* C25: in every quiescent state of App (no render due, no effect pending),
\* after any sequence of load completion, clearCart, removeItem, increase and
\* decrease, the amount Navbar shows and the total CartContainer shows are
\* the sums over the current items.
C25_ShownTotalsMatchItems == (Quiescent /\ app.screen = "Cart") => (app.amount = cart.amount /\ app.total = cart.total /\ app.amount = QuantitySum(cart.cartItems) /\ app.total = ValueSum(cart.cartItems))

\* at rest after a removeItem that followed an increase: one line of
\* quantity 2 is left and 2 and 40 are shown
C25_Witness == Quiescent /\ app.screen = "Cart" /\ cart.cartItems = << [id |-> 2, price |-> 20, amount |-> 2] >> /\ app.amount = 2 /\ app.total = 40 /\ lastAction.type = "cart/calculateTotals"

\* C26: each of clearCart, removeItem, increase and decrease produces a new
\* cartItems reference, so after each such dispatch App's effect keyed on
\* cartItems runs again and dispatches calculateTotals.
C26_MutationRerunsTotals == (lastAction.type \in { "cart/clearCart", "cart/removeItem", "cart/increase", "cart/decrease" }) ~> (lastAction.type = "cart/calculateTotals")

\* calculateTotals dispatched by the effect after a decrease: the render
\* before it saw the decreased quantity with the old amount
C26_Witness == lastAction.type = "cart/calculateTotals" /\ app.effects = <<>> /\ app.stale /\ app.amount = 3 /\ cart.amount = 2 /\ Len(cart.cartItems) = 2

\* C27: App's effect-driven dispatching terminates: after a user action or a
\* load completion only finitely many calculateTotals and setCount0
\* dispatches follow and the system reaches quiescence.
C27_EffectsTerminate == (~Quiescent) ~> Quiescent

\* at rest after the effects that followed the delivery of two items: the
\* last of them dispatched setCount0
C27_Witness == Quiescent /\ lastAction.type = "cart/setCount0" /\ Len(cart.cartItems) = 2 /\ cart.amount = 2 /\ cart.total = 70

\* C29: Navbar and CartContainer are rendered only when isLoading is false:
\* until the first load has completed only the Loading screen is shown, no
\* clearCart is dispatched while a load is outstanding, and setCount0 is
\* dispatched only when isLoading is false and the cart has an item.
C29_CartShownOnlyWhenLoaded == /\ (app.screen = "Cart" => (~app.isLoading /\ invoked >= 1 /\ completions[1] = 1)) /\ ((invoked = 0 \/ completions[1] = 0) => app.screen \in { "none", "Loading" }) /\ (lastAction.type = "cart/clearCart" => (inflight = {} /\ ~cart.isLoading)) /\ (lastAction.type = "cart/setCount0" => (~cart.isLoading /\ Len(cart.cartItems) >= 1))

\* clearCart clicked on the cart the completed load had delivered
C29_Witness == lastAction.type = "cart/clearCart" /\ app.screen = "Cart" /\ app.length = 2 /\ cart.cartItems = <<>> /\ completions[1] = 1 /\ inflight = {}

\* C21: each dispatch first replaces the stored state with the reducer's
\* result and then notifies every currently registered subscriber exactly
\* once, before the next dispatch begins; a subscriber that calls getState
\* when notified sees the state produced by that dispatch.
C21_DispatchReplacesThenNotifies == /\ [](cart = subs.produced /\ (\A c \in Callbacks : subs.calls[c] <= 1 /\ (subs.calls[c] = 1 => subs.sawIt[c])) /\ ((~subs.notifying /\ ~thrown /\ subs.count >= 1) => \A c \in subs.due : subs.calls[c] = 1)) /\ (subs.notifying ~> ~subs.notifying)

\* an increase was dispatched with both callbacks registered, both were
\* called once and saw the increased quantity
C21_Witness == ~subs.notifying /\ lastAction.type = "cart/increase" /\ ~thrown /\ subs.due = Callbacks /\ (\A c \in Callbacks : subs.calls[c] = 1 /\ subs.sawIt[c]) /\ QuantitySum(cart.cartItems) = 3

\* C22: a callback registered with subscribe is invoked after every dispatch
\* made while it is registered, and once its Unsubscribe handle has been
\* called no later dispatch invokes it.
C22_SubscribedUntilUnsubscribed == /\ (\A c \in Callbacks : subs.calls[c] >= 1 => c \in subs.atBegin) /\ ((~subs.notifying /\ ~thrown /\ subs.count >= 1) => \A c \in subs.due : subs.calls[c] >= 1)

\* Navbar's handle was called after the first dispatch: the second dispatch
\* called App only
C22_Witness == ~subs.notifying /\ subs.count = 2 /\ ~thrown /\ subs.atBegin = { "App" } /\ subs.calls["App"] = 1 /\ subs.calls["Navbar"] = 0 /\ subs.listeners = << "App" >>

\* C23: dispatches are applied one at a time in the order they are invoked:
\* no dispatch begins while another is in progress, and the reducer of a
\* dispatch is applied to the state the dispatch before it produced.
C23_DispatchesSerialized == [][subs'.count = subs.count + 1 => (~subs.notifying /\ subs'.base = subs.produced /\ subs'.base = cart /\ (~thrown' => cart' = cartReducer(subs.produced, lastAction').st))]_vars

\* a click's increase and then the effect's calculateTotals: the totals are
\* those of the increased quantities
C23_Witness == subs.count = 2 /\ lastAction.type = "cart/calculateTotals" /\ subs.base.amount = 0 /\ QuantitySum(subs.base.cartItems) = 3 /\ subs.produced.amount = 3 /\ subs.produced.total = 120

\* C24: a state snapshot obtained from getState (or a selector) before a
\* dispatch is never modified by that or any later dispatch: every
\* transition, increase and decrease of one item's quantity included,
\* produces a new state value and leaves the previous value as it was.
C24_SnapshotNeverModified == /\ cart = Deref(heap, heap.root) /\ (heap.snapshot.taken => (Deref(heap, heap.snapshot.addr) = heap.snapshot.value /\ (cart # heap.snapshot.value => heap.root # heap.snapshot.addr)))

\* a snapshot taken of the delivered cart, then an increase and a decrease
\* of different items: the snapshot still has both quantities at 1
C24_Witness == heap.snapshot.taken /\ heap.snapshot.addr = 1 /\ heap.count = 2 /\ lastAction.type = "cart/decrease" /\ cart.cartItems = << [id |-> 1, price |-> 50, amount |-> 2], [id |-> 2, price |-> 20, amount |-> 0] >> /\ QuantitySum(heap.snapshot.value.cartItems) = 2 /\ heap.root = 3

====
